---- MODULE Spec2Model ----
(***************************************************************************)
(* A model of the movies-buddy workshop notebooks:                         *)
(*   - the brute-force k_closest_vectors scan of notebook 02,              *)
(*   - the Qdrant in-memory client as notebook 02 drives it (collections,  *)
(*     uploads, similarity search),                                        *)
(*   - the sentence encoder of notebook 01,                                *)
(*   - the movies cells of notebook 02 followed by the ask pipeline of     *)
(*     notebook 03, run cell after cell,                                   *)
(*   - the distance measures of notebook 02 (cell 10) and the distance of  *)
(*     k_closest_vectors in floating point,                                *)
(*   - the kernel running the cells, and k_closest_vectors taken one       *)
(*     operation at a time.                                                *)
(* Vectors are sequences of integers: the integer points of the intervals   *)
(* the notebook draws its coordinates from; where rounding matters, floats *)
(* with a short significand.                                               *)
(***************************************************************************)
EXTENDS Integers, Sequences, FiniteSets, TLC

VARIABLES
    \* notebook 02, nearest neighbour search
    vectors, query_vector, K, closest_vectors, k_closest_indices, knn_runs,
    \* the order np.argsort gives to the distances of this run, whether the last
    \* call of k_closest_vectors raised, and what each call so far returned
    np_argsort, knn_raised, returned,
    \* the Qdrant client: its collections, and its most recent call with what
    \* the call returned
    collections, last,
    \* notebook 01: the sentences to encode, and what encoder.encode returned
    example, embedding_example, sentences, sentence_embeddings, enc_runs,
    \* the movie buddy run: the step to run next, whether a step raised, the
    \* steps run so far, the notebook's global variables, the local variables of
    \* ask, and the prompts sent to the language model
    pc, failed, trace, nb, ask, llm_requests,
    \* the metric properties of notebook 02: three vectors a, b, r, and the
    \* `distances` the first line of k_closest_vectors computes between them
    vec_a, vec_b, vec_r, distances,
    \* notebook 02, cell 10: two vectors and their four measures
    vector_a, vector_b, cosine_distance, dot_distance, euclidean_dist, manhattan_dist,
    \* the notebook kernel: the cells asked to run, the cells and the external
    \* calls in progress, how the last run of each cell ended, and the cell
    \* started last
    queue, running, in_call, outcome, last_started,
    \* a call of k_closest_vectors taken step by step: its local variables and
    \* the operations it has done
    scan

knn_vars == <<vectors, query_vector, K, closest_vectors, k_closest_indices, knn_runs,
              np_argsort, knn_raised, returned>>

db_vars == <<collections, last>>

enc_vars == <<example, embedding_example, sentences, sentence_embeddings, enc_runs>>

rag_vars == <<pc, failed, trace, nb, ask, llm_requests>>

metric_vars == <<vec_a, vec_b, vec_r, distances>>

cell10_vars == <<vector_a, vector_b, cosine_distance, dot_distance, euclidean_dist, manhattan_dist>>

dist_vars == <<metric_vars, cell10_vars>>

kernel_vars == <<queue, running, in_call, outcome, last_started>>

vars == <<knn_vars, db_vars, enc_vars, rag_vars, dist_vars, kernel_vars, scan>>

\* a notebook whose cells have not run
KnnIdle ==
    /\ vectors = <<>>
    /\ query_vector = <<>>
    /\ K = 0
    /\ closest_vectors = <<>>
    /\ k_closest_indices = <<>>
    /\ knn_runs = FALSE
    /\ np_argsort = <<>>
    /\ knn_raised = FALSE
    /\ returned = <<>>

EncIdle ==
    /\ example = <<>>
    /\ sentences = <<>>
    /\ embedding_example = <<>>
    /\ sentence_embeddings = <<>>
    /\ enc_runs = {}

NoGlobals ==
    [api_key |-> FALSE, question |-> <<>>, movies |-> <<>>, movies_embeddings |-> <<>>,
     records |-> <<>>, encoded_prompt |-> <<>>, hits |-> <<>>, answer |-> ""]

NoLocals ==
    [embedding |-> <<>>, docs |-> <<>>, context |-> <<>>,
     prompt |-> [context |-> <<>>, prompt |-> <<>>], completion |-> ""]

RagIdle ==
    /\ pc = "load_data"
    /\ failed = FALSE
    /\ trace = <<>>
    /\ nb = NoGlobals
    /\ ask = NoLocals
    /\ llm_requests = <<>>

\* no distance computed yet
NotComputed == [computed |-> FALSE]

MetricIdle ==
    /\ vec_a = <<>>
    /\ vec_b = <<>>
    /\ vec_r = <<>>
    /\ distances = NotComputed

Cell10Idle ==
    /\ vector_a = <<>>
    /\ vector_b = <<>>
    /\ cosine_distance = NotComputed
    /\ dot_distance = NotComputed
    /\ euclidean_dist = NotComputed
    /\ manhattan_dist = NotComputed

DistIdle == MetricIdle /\ Cell10Idle

\* the cells the kernel runs
Cells == {"timed_knn", "upload_records", "timed_search", "ask"}

KernelIdle ==
    /\ queue = <<>>
    /\ running = {}
    /\ in_call = {}
    /\ outcome = [c \in Cells |-> "not run"]
    /\ last_started = "none"

\* k_closest_vectors not called
NoScan == [phase |-> "not called"]

ScanIdle == scan = NoScan

OthersIdle == DistIdle /\ KernelIdle /\ ScanIdle

---------------------------------------------------------------------------
(* Bounds *)

\* rows of the matrix handed to k_closest_vectors
MaxRows == 3
\* point ids a collection can hold
MaxIds == 2
\* words of a sentence
MaxWords == 2
\* sentences of a list handed to encoder.encode
MaxSentences == 2
\* movies of the dataset
MaxMovies == 3
\* calls of k_closest_vectors in a run
MaxCalls == 2
\* cells waiting for the kernel
MaxQueue == 2

---------------------------------------------------------------------------
(* Program constants (scaled down) *)

\* VECTOR_DIMENSIONS = 500 in the notebook; 2 columns here
VECTOR_DIMENSIONS == 2
\* encoder.get_sentence_embedding_dimension(): 384 for all-MiniLM-L6-v2; 2 here
EMBEDDING_DIMENSION == 2
\* limit=10 of the movies search, max_results=10 of ask; 2 here
SEARCH_LIMIT == 2
MAX_RESULTS == 2
\* np.random.uniform(low=0.0, high=1, ...) for the rows of `vectors`
Low == 0
High == 1
\* np.random.uniform(low=-1, high=1, ...) for `query_vector`
QueryLow == -1

---------------------------------------------------------------------------
(* Arithmetic on vectors *)

Min(a, b) == IF a <= b THEN a ELSE b

Range(f) == {f[i] : i \in DOMAIN f}

RECURSIVE SumSeq(_)
SumSeq(s) == IF s = <<>> THEN 0 ELSE Head(s) + SumSeq(Tail(s))

\* np.sum((row - target_vec) ** 2)
SumSqDiff(row, target_vec) ==
    SumSeq([i \in 1..Len(row) |-> (row[i] - target_vec[i]) * (row[i] - target_vec[i])])

\* np.sqrt of a natural number, kept exact: the real sqrt(n) is carried by its
\* radicand, and two square roots compare as their radicands do.
Sqrt(n) == [radicand |-> n]

SurdLeq(a, b) == a.radicand <= b.radicand
SurdLess(a, b) == a.radicand < b.radicand

\* one entry of `distances`: the Euclidean distance of a row to the target
Euclidean(row, target_vec) == Sqrt(SumSqDiff(row, target_vec))

\* distances = np.sqrt(np.sum((vectors - target_vec) ** 2, axis=1))
Distances(target_vec, vecs) == [i \in 1..Len(vecs) |-> Euclidean(vecs[i], target_vec)]

RowOrders(n) == {p \in [1..n -> 1..n] : \A i, j \in 1..n : p[i] = p[j] => i = j}

\* np.argsort(distances): a permutation of the row positions that puts the
\* distances in non-decreasing order. The default sort kind is not stable, so
\* rows at equal distance may come in any order.
ArgsortDescending(d) ==
    {p \in RowOrders(Len(d)) :
        \A i, j \in 1..Len(d) : i < j => SurdLeq(d[p[j]], d[p[i]])}
Argsort(d) ==
    {p \in RowOrders(Len(d)) :
        \A i, j \in 1..Len(d) : i < j => SurdLeq(d[p[i]], d[p[j]])}

\* a[:k] without the clamp of a slice: k positions, those past the end of a
\* pointing past the last row
PrefixUnclamped(a, k) == [i \in 1..k |-> IF i <= Len(a) THEN a[i] ELSE Len(a) + 1]

\* a[:k] for k >= 0
Prefix(a, k) == [i \in 1..Min(k, Len(a)) |-> a[i]]

\* One call of k_closest_vectors, np.argsort returning `order`: what it returns
\* or that it raised, and the two arrays it was given as they are after it.
\* `vectors - target_vec`, `** 2`, np.sum, np.sqrt and `vectors[...]` with an
\* array of positions each make a new array.
k_closest_vectors_in_place(target_vec, vecs, k, order) ==
    LET idx == Prefix(order, k)
    IN [raised |-> FALSE,
        k_closest_indices |-> idx,
        closest_vectors |-> [i \in 1..Len(idx) |-> vecs[idx[i]]],
        vectors |-> [i \in 1..Len(vecs) |->
                        [j \in 1..Len(target_vec) |-> vecs[i][j] - target_vec[j]]],
        target_vec |-> target_vec]
k_closest_vectors_call(target_vec, vecs, k, order) ==
    LET idx == Prefix(order, k)
        in_range == \A i \in 1..Len(idx) : idx[i] \in 1..Len(vecs)
    IN [raised |-> ~in_range,
        k_closest_indices |-> idx,
        closest_vectors |-> IF in_range THEN [i \in 1..Len(idx) |-> vecs[idx[i]]] ELSE <<>>,
        vectors |-> vecs,
        target_vec |-> target_vec]

\* The results k_closest_vectors can return: <<k_closest_indices, closest_vectors>>
k_closest_vectors(target_vec, vecs, k) ==
    {<<k_closest_vectors_call(target_vec, vecs, k, order).k_closest_indices,
       k_closest_vectors_call(target_vec, vecs, k, order).closest_vectors>> :
        order \in Argsort(Distances(target_vec, vecs))}

---------------------------------------------------------------------------
(* The Qdrant client, QdrantClient(":memory:") *)

\* COLLECTION_NAME: each client of the notebooks holds one collection
Names == {"movies"}
Metrics == {"Cosine", "Euclid"}
\* the vector sizes a collection is created with: one column, or two
Sizes == {1, 2}
Ids == 1..MaxIds

NoCollection == [exists |-> FALSE]

\* models.VectorParams(size=..., distance=...)
VectorParams(size, distance) == [size |-> size, distance |-> distance]

\* a collection right after its creation: its vector configuration, no points.
\* points maps the id of each stored point to its vector, payloads to its payload.
NewCollection(config) ==
    [exists |-> TRUE, config |-> config, points |-> <<>>, payloads |-> <<>>]

PointIds(c) == DOMAIN c.points

NoConfig == [size |-> 0, distance |-> ""]
\* the payload of a point uploaded without one
NoPayload == [title |-> 0, overview |-> <<>>]
NoPoint == [id |-> 0, vector |-> <<>>, payload |-> NoPayload]

\* `last` describes the most recent call on the client: the method, the collection
\* name, whether it returned (ok) or raised, and
\*   config, replaced: the configuration recreate_collection was given, and the
\*                     collection it dropped (NoCollection if there was none);
\*   point:            the point on which upload_points raised;
\*   query, limit, hits: the arguments of search and the hits it returned.
Call(op, name, ok) ==
    [op |-> op, name |-> name, ok |-> ok,
     config |-> NoConfig, replaced |-> NoCollection, point |-> NoPoint,
     query |-> <<>>, limit |-> 0, hits |-> <<>>]

NoCall == Call("QdrantClient", "", TRUE)

\* qdrant = QdrantClient(":memory:")
QdrantClient == [n \in Names |-> NoCollection]

DbIdle ==
    /\ collections = QdrantClient
    /\ last = NoCall

\* qdrant.recreate_collection(collection_name, vectors_config): the collection of
\* that name is dropped if there is one, and created anew.
recreate_collection_keeps_points(cols, name, config) ==
    [cols EXCEPT ![name] =
        IF cols[name].exists
        THEN [cols[name] EXCEPT !.config = config]
        ELSE NewCollection(config)]
recreate_collection_if_missing(cols, name, config) ==
    [cols EXCEPT ![name] = IF cols[name].exists THEN cols[name] ELSE NewCollection(config)]
recreate_collection(cols, name, config) ==
    [cols EXCEPT ![name] = NewCollection(config)]

\* one point of an upload: stored under its id, replacing a point of the same id.
\* Only vectors of the collection's size can be added: another length raises.
Fits(c, point) == Len(point.vector) = c.config.size

Upsert(c, point) ==
    [c EXCEPT
        !.points = [i \in PointIds(c) \cup {point.id} |->
                        IF i = point.id THEN point.vector ELSE c.points[i]],
        !.payloads = [i \in PointIds(c) \cup {point.id} |->
                        IF i = point.id THEN point.payload ELSE c.payloads[i]]]

\* the points of a batch go in one after the other, up to the first that raises
RECURSIVE UploadUnchecked(_, _)
UploadUnchecked(c, batch) ==
    IF batch = <<>> THEN c
    ELSE UploadUnchecked(Upsert(c, Head(batch)), Tail(batch))
RECURSIVE Upload(_, _)
Upload(c, batch) ==
    IF batch = <<>> THEN c
    ELSE IF ~Fits(c, Head(batch)) THEN c
    ELSE Upload(Upsert(c, Head(batch)), Tail(batch))

UploadOk(c, batch) == \A i \in 1..Len(batch) : Fits(c, batch[i])

\* the point on which the upload raises
Misfit(c, batch) ==
    batch[CHOOSE i \in 1..Len(batch) :
        /\ ~Fits(c, batch[i])
        /\ \A j \in 1..(i - 1) : Fits(c, batch[j])]

(* Scores. A score s is carried by s * |s| as a fraction num / den, den > 0:   *)
(* the map from s to s * |s| is increasing, so scores compare as fractions do. *)
Dot(a, b) == SumSeq([i \in 1..Len(a) |-> a[i] * b[i]])
SignedSquare(x) == IF x >= 0 THEN x * x ELSE 0 - (x * x)

\* cosine similarity Dot(a, b) / (|a| |b|), and 0 when a vector is null
CosineScore(q, v) ==
    IF Dot(q, q) = 0 \/ Dot(v, v) = 0
    THEN [num |-> 0, den |-> 1]
    ELSE [num |-> SignedSquare(Dot(q, v)), den |-> Dot(q, q) * Dot(v, v)]

\* Euclidean distance, the smaller the more similar: the score is its opposite
EuclidScore(q, v) == [num |-> 0 - SumSqDiff(v, q), den |-> 1]

Score(metric, q, v) ==
    IF metric = "Cosine" THEN CosineScore(q, v) ELSE EuclidScore(q, v)

ScoreLeq(a, b) == a.num * b.den <= b.num * a.den
ScoreLess(a, b) == a.num * b.den < b.num * a.den

\* the ids of the points, most similar first; points of equal score in any order
RankedLeastSimilarFirst(c, q) ==
    {o \in [1..Cardinality(PointIds(c)) -> PointIds(c)] :
        /\ \A i, j \in DOMAIN o : o[i] = o[j] => i = j
        /\ \A i, j \in DOMAIN o : i < j =>
            ScoreLeq(Score(c.config.distance, q, c.points[o[i]]),
                     Score(c.config.distance, q, c.points[o[j]]))}
Ranked(c, q) ==
    {o \in [1..Cardinality(PointIds(c)) -> PointIds(c)] :
        /\ \A i, j \in DOMAIN o : o[i] = o[j] => i = j
        /\ \A i, j \in DOMAIN o : i < j =>
            ScoreLeq(Score(c.config.distance, q, c.points[o[j]]),
                     Score(c.config.distance, q, c.points[o[i]]))}

\* qdrant.search(collection_name, query_vector, limit): the hits it can return,
\* an exhaustive scan of the in-memory collection cut at `limit`
SearchNoLimit(c, q, limit) == Ranked(c, q)
Search(c, q, limit) == {Prefix(o, limit) : o \in Ranked(c, q)}

SearchOk(c, q) == c.exists /\ Len(q) = c.config.size

---------------------------------------------------------------------------
(* The calls a notebook makes on the client *)

StoredVectors == UNION {[1..n -> Low..High] : n \in Sizes}
QueryVectors == UNION {[1..n -> QueryLow..High] : n \in Sizes}
Points == [id : Ids, vector : StoredVectors, payload : {NoPayload}]
\* the records of an upload carry different ids (id=idx, the row of the movie)
Batches ==
    {<<>>} \cup {<<p>> : p \in Points}
        \cup {<<pq[1], pq[2]>> : pq \in {x \in Points \X Points : x[1].id # x[2].id}}
Limits == 0..(MaxIds + 1)

NewClient ==
    /\ collections' = QdrantClient
    /\ last' = NoCall
    /\ UNCHANGED <<knn_vars, dist_vars, kernel_vars, scan, enc_vars, rag_vars>>

RecreateCollection(name, config) ==
    /\ collections' = recreate_collection(collections, name, config)
    /\ last' = [Call("recreate_collection", name, TRUE) EXCEPT
                    !.config = config, !.replaced = collections[name]]
    /\ UNCHANGED <<knn_vars, dist_vars, kernel_vars, scan, enc_vars, rag_vars>>

\* qdrant.upload_points(collection_name, points): raises on a collection that
\* does not exist and on a vector of another size
UploadPoints(name, batch) ==
    /\ IF collections[name].exists
       THEN /\ collections' = [collections EXCEPT ![name] = Upload(@, batch)]
            /\ last' = IF UploadOk(collections[name], batch)
                       THEN Call("upload_points", name, TRUE)
                       ELSE [Call("upload_points", name, FALSE) EXCEPT
                                !.point = Misfit(collections[name], batch)]
       ELSE /\ collections' = collections
            /\ last' = Call("upload_points", name, FALSE)
    /\ UNCHANGED <<knn_vars, dist_vars, kernel_vars, scan, enc_vars, rag_vars>>

\* qdrant.get_collection(collection_name)
GetCollection(name) ==
    /\ last' = Call("get_collection", name, collections[name].exists)
    /\ UNCHANGED <<collections, knn_vars, dist_vars, kernel_vars, scan, enc_vars, rag_vars>>

\* qdrant.search(collection_name, query_vector, limit)
SearchCollection(name, q, limit) ==
    /\ IF SearchOk(collections[name], q)
       THEN \E h \in Search(collections[name], q, limit) :
                last' = [Call("search", name, TRUE) EXCEPT
                            !.query = q, !.limit = limit, !.hits = h]
       ELSE last' = [Call("search", name, FALSE) EXCEPT !.query = q, !.limit = limit]
    /\ UNCHANGED <<collections, knn_vars, dist_vars, kernel_vars, scan, enc_vars, rag_vars>>

DbInit ==
    /\ DbIdle
    /\ KnnIdle
    /\ EncIdle
    /\ RagIdle
    /\ OthersIdle

DbNext ==
    \/ NewClient
    \/ \E name \in Names, size \in Sizes, distance \in Metrics :
        RecreateCollection(name, VectorParams(size, distance))
    \/ \E name \in Names, batch \in Batches : UploadPoints(name, batch)
    \/ \E name \in Names : GetCollection(name)
    \/ \E name \in Names, q \in QueryVectors, limit \in Limits :
        SearchCollection(name, q, limit)

SpecDb == DbInit /\ [][DbNext]_vars

---------------------------------------------------------------------------
(* Claims on the Qdrant client *)

Searched == last.op = "search" /\ last.ok
Target == collections[last.name]
HitScore(id) == Score(Target.config.distance, last.query, Target.points[id])

\* C4 as stated: a similarity search with limit n returns exactly n hits, for
\* every collection state and every n.
C4_ExactlyLimitHits == Searched => Len(last.hits) = last.limit

\* C4 amended: a similarity search with limit n returns min(n, number of points
\* of the collection) hits, all of them different points of the collection; so
\* exactly n hits whenever the collection holds at least n points.
C4_AtMostLimitHits ==
    Searched =>
        /\ Len(last.hits) = Min(last.limit, Cardinality(PointIds(Target)))
        /\ Range(last.hits) \subseteq PointIds(Target)
        /\ Cardinality(Range(last.hits)) = Len(last.hits)

\* a search that had more points to choose from than its limit
C4_Witness ==
    /\ Searched
    /\ last.limit >= 1
    /\ Cardinality(PointIds(Target)) > last.limit
    /\ Len(last.hits) = last.limit

AllVectorsFit(cols) ==
    \A n \in Names : cols[n].exists =>
        \A id \in PointIds(cols[n]) : Len(cols[n].points[id]) = cols[n].config.size

\* C6: after every create, upload and search, every point stored in a collection
\* has a vector of the size the collection was created with; and the point on
\* which an upload raises (its vector has another length) is not added: the
\* collection holds under its id what it held before.
C6_OnlyVectorsOfTheSize ==
    [][/\ AllVectorsFit(collections')
       /\ (last'.op = "upload_points" /\ ~last'.ok /\ collections[last'.name].exists) =>
            /\ Len(last'.point.vector) # collections[last'.name].config.size
            /\ (last'.point.id \in PointIds(collections'[last'.name])) =
               (last'.point.id \in PointIds(collections[last'.name]))
            /\ last'.point.id \in PointIds(collections[last'.name]) =>
                collections'[last'.name].points[last'.point.id] =
                collections[last'.name].points[last'.point.id]]_vars

\* an upload raised on a vector of another length, in a collection holding points
C6_Witness ==
    /\ last.op = "upload_points"
    /\ ~last.ok
    /\ Target.exists
    /\ PointIds(Target) # {}
    /\ Len(last.point.vector) # Target.config.size

OnClient(op) == op \in {"upload_points", "search", "get_collection", "recreate_collection"}

\* C7 as stated: once a collection of a name exists, no later operation on the
\* client (upload, search, get_collection, recreate_collection) leaves that name
\* with another vector size or distance metric.
C7_ConfigNeverChanges ==
    [][OnClient(last'.op) =>
        \A n \in Names : collections[n].exists =>
            /\ collections'[n].exists
            /\ collections'[n].config = collections[n].config]_vars

\* C7 amended: no upload, search or get_collection changes the vector size or the
\* distance metric of a collection; recreate_collection on that name, and only
\* it, replaces them, with the configuration it is given.
C7_ConfigChangesOnlyByRecreate ==
    [][OnClient(last'.op) =>
        \A n \in Names : collections[n].exists =>
            /\ collections'[n].exists
            /\ collections'[n].config =
                IF last'.op = "recreate_collection" /\ last'.name = n
                THEN last'.config
                ELSE collections[n].config]_vars

\* recreate_collection gave an existing collection another configuration
C7_Witness ==
    /\ last.op = "recreate_collection"
    /\ last.replaced.exists
    /\ last.replaced.config # Target.config

\* C8: after recreate_collection(name, config) the client holds a collection of
\* that name with that configuration and no points, whatever it held before,
\* the other collections are untouched, and a second recreate_collection with
\* the same arguments changes nothing.
C8_RecreateGivesEmptyCollection ==
    [][last'.op = "recreate_collection" =>
        /\ collections'[last'.name] = NewCollection(last'.config)
        /\ \A n \in Names \ {last'.name} : collections'[n] = collections[n]
        /\ recreate_collection(collections', last'.name, last'.config) = collections']_vars

\* recreate_collection dropped a collection that held points
C8_Witness ==
    /\ last.op = "recreate_collection"
    /\ last.replaced.exists
    /\ PointIds(last.replaced) # {}
    /\ PointIds(Target) = {}

---------------------------------------------------------------------------
(* The sentence encoder, SentenceTransformer("all-MiniLM-L6-v2") *)

Words == {"scientist", "aliens"}

\* a sentence is the sequence of its words
Sentences == UNION {[1..n -> Words] : n \in 0..MaxWords}

\* the tokens of a sentence: its words between the two marks the tokenizer adds
Tokenize(sentence) == <<"[CLS]">> \o sentence \o <<"[SEP]">>

\* the vector of a token, of EMBEDDING_DIMENSION coordinates
TokenEmbedding(token) ==
    [i \in 1..EMBEDDING_DIMENSION |->
        CASE token = "[CLS]" -> 1
          [] token = "[SEP]" -> IF i = 1 THEN 0 ELSE 1
          [] token = "scientist" -> IF i = 1 THEN 1 ELSE 0 - 1
          [] OTHER -> i]

\* pooling: the token vectors added coordinate by coordinate (the mean, up to
\* the normalisation every similarity here undoes)
Pool(token_vectors) ==
    [i \in 1..EMBEDDING_DIMENSION |->
        SumSeq([t \in 1..Len(token_vectors) |-> token_vectors[t][i]])]

\* encoder.encode(sentence) for one sentence
Encode(sentence) ==
    LET tokens == Tokenize(sentence)
    IN Pool([t \in 1..Len(tokens) |-> TokenEmbedding(tokens[t])])

\* the orders that put the sentences longest first
LongestFirst(list) ==
    {o \in RowOrders(Len(list)) :
        \A i, j \in 1..Len(list) : i < j => Len(list[o[i]]) >= Len(list[o[j]])}

\* encoder.encode(list): the sentences are encoded longest first, and the
\* vectors are put back in the order of the input
EncodeListLongestFirst(list) ==
    LET order == CHOOSE o \in LongestFirst(list) : TRUE
    IN [i \in 1..Len(list) |-> Encode(list[order[i]])]
EncodeList(list) ==
    LET order == CHOOSE o \in LongestFirst(list) : TRUE
        sorted == [i \in 1..Len(list) |-> Encode(list[order[i]])]
        place(i) == CHOOSE j \in 1..Len(list) : order[j] = i
    IN [i \in 1..Len(list) |-> sorted[place(i)]]

\* encoder.get_sentence_embedding_dimension()
get_sentence_embedding_dimension == EMBEDDING_DIMENSION

---------------------------------------------------------------------------
(* Notebook 01, cells 7 and 15 *)

SentenceLists == UNION {[1..n -> Sentences] : n \in 0..MaxSentences}

\* cell 7: embedding_example = encoder.encode("My first encoded sentence: ...")
EncodeExample ==
    /\ embedding_example' = Encode(example)
    /\ enc_runs' = enc_runs \cup {"cell 7"}
    /\ UNCHANGED <<example, sentences, sentence_embeddings, knn_vars, dist_vars, kernel_vars, scan, db_vars, rag_vars>>

\* cell 15: sentence_embeddings = encoder.encode(sentences["sentences"].to_list())
EncodeSentences ==
    /\ sentence_embeddings' = EncodeList(sentences)
    /\ enc_runs' = enc_runs \cup {"cell 15"}
    /\ UNCHANGED <<example, embedding_example, sentences, knn_vars, dist_vars, kernel_vars, scan, db_vars, rag_vars>>

EncInit ==
    /\ example \in Sentences
    /\ sentences \in SentenceLists
    /\ embedding_example = <<>>
    /\ sentence_embeddings = <<>>
    /\ enc_runs = {}
    /\ KnnIdle
    /\ DbIdle
    /\ RagIdle
    /\ OthersIdle

EncNext == EncodeExample \/ EncodeSentences

SpecEnc == EncInit /\ [][EncNext]_vars

\* C9: encoder.encode returns for every sentence a vector of the same number of
\* dimensions, and for a list of n sentences n vectors, the i-th of which is the
\* vector of the i-th sentence.
C9_FixedLengthInInputOrder ==
    /\ "cell 7" \in enc_runs =>
        Len(embedding_example) = get_sentence_embedding_dimension
    /\ "cell 15" \in enc_runs =>
        /\ Len(sentence_embeddings) = Len(sentences)
        /\ \A i \in 1..Len(sentences) :
            /\ "cell 7" \in enc_runs =>
                Len(sentence_embeddings[i]) = Len(embedding_example)
            /\ Len(sentence_embeddings[i]) = get_sentence_embedding_dimension
            /\ sentence_embeddings[i] = Pool([t \in 1..Len(Tokenize(sentences[i])) |->
                                              TokenEmbedding(Tokenize(sentences[i])[t])])

\* a list whose sentences differ in length, a shorter one first, and an example
\* of yet another length, all encoded
C9_Witness ==
    /\ enc_runs = {"cell 7", "cell 15"}
    /\ Len(sentences) >= 2
    /\ Len(sentences[1]) < Len(sentences[2])
    /\ Len(example) > Len(sentences[1])
    /\ sentence_embeddings[1] # sentence_embeddings[2]

---------------------------------------------------------------------------
(* Notebook 02, cells 15 and 17 *)

RowSpace == [1..VECTOR_DIMENSIONS -> Low..High]
QuerySpace == [1..VECTOR_DIMENSIONS -> QueryLow..High]
Matrices == UNION {[1..n -> RowSpace] : n \in 0..MaxRows}

\* what a call returned
Result(r) == [k_closest_indices |-> r.k_closest_indices, closest_vectors |-> r.closest_vectors]

\* cell 17: closest_vectors = k_closest_vectors(query_vector, vectors, K), with
\* any of the sorted orders at each call
TimeKnnAnyOrder ==
    /\ Len(returned) < MaxCalls
    /\ \E order \in Argsort(Distances(query_vector, vectors)) :
        LET r == k_closest_vectors_call(query_vector, vectors, K, order)
        IN /\ k_closest_indices' = r.k_closest_indices
           /\ closest_vectors' = r.closest_vectors
           /\ knn_raised' = r.raised
           /\ vectors' = r.vectors
           /\ query_vector' = r.target_vec
           /\ returned' = Append(returned, Result(r))
    /\ knn_runs' = TRUE
    /\ UNCHANGED <<K, np_argsort>>
    /\ UNCHANGED <<db_vars, enc_vars, rag_vars, dist_vars, kernel_vars, scan>>

\* cell 17: closest_vectors = k_closest_vectors(query_vector, vectors, K). The
\* names vectors and query_vector stay bound to the arrays handed to the call.
TimeKnn ==
    /\ Len(returned) < MaxCalls
    /\ LET r == k_closest_vectors_call(query_vector, vectors, K, np_argsort)
       IN /\ k_closest_indices' = r.k_closest_indices
          /\ closest_vectors' = r.closest_vectors
          /\ knn_raised' = r.raised
          /\ vectors' = r.vectors
          /\ query_vector' = r.target_vec
          /\ returned' = Append(returned, Result(r))
    /\ knn_runs' = TRUE
    /\ UNCHANGED <<K, np_argsort>>
    /\ UNCHANGED <<db_vars, enc_vars, rag_vars, dist_vars, kernel_vars, scan>>

\* cell 15 has run: vectors = np.random.uniform(0, 1, (N_VECTORS, VECTOR_DIMENSIONS)),
\* query_vector = np.random.uniform(-1, 1, (VECTOR_DIMENSIONS,)), and K is set.
\* np.argsort is a fixed procedure: of the orders that sort the distances, rows
\* at equal distance in any order, it gives one, the same at every call.
KnnInit ==
    /\ vectors \in Matrices
    /\ query_vector \in QuerySpace
    /\ K \in 0..(MaxRows + 1)
    /\ np_argsort \in Argsort(Distances(query_vector, vectors))
    /\ closest_vectors = <<>>
    /\ k_closest_indices = <<>>
    /\ knn_runs = FALSE
    /\ knn_raised = FALSE
    /\ returned = <<>>
    /\ DbIdle
    /\ EncIdle
    /\ RagIdle
    /\ OthersIdle

KnnNext == TimeKnn

SpecKnn == KnnInit /\ [][KnnNext]_vars

\* C1: for 0 <= K <= N, k_closest_vectors returns K rows of the matrix, taken at K
\* different row positions, and every returned row is at a Euclidean distance from
\* the query less than or equal to that of every row position not selected.
C1_KClosestAreSmallest ==
    (knn_runs /\ K <= Len(vectors)) =>
        /\ Len(closest_vectors) = K
        /\ Len(k_closest_indices) = K
        /\ Range(k_closest_indices) \subseteq 1..Len(vectors)
        /\ Cardinality(Range(k_closest_indices)) = K
        /\ \A i \in 1..K :
            /\ closest_vectors[i] = vectors[k_closest_indices[i]]
            /\ \A j \in (1..Len(vectors)) \ Range(k_closest_indices) :
                SurdLeq(Euclidean(closest_vectors[i], query_vector),
                        Euclidean(vectors[j], query_vector))

\* a call that had to choose: some row was left out, and it is strictly farther
\* from the query than a returned row
C1_Witness ==
    /\ knn_runs
    /\ K >= 1
    /\ K < Len(vectors)
    /\ \E i \in 1..K : \E j \in (1..Len(vectors)) \ Range(k_closest_indices) :
        SurdLess(Euclidean(closest_vectors[i], query_vector),
                 Euclidean(vectors[j], query_vector))

---------------------------------------------------------------------------
(* The movie buddy: the movies cells of notebook 02, then notebook 03 *)

COLLECTION_NAME == "movies"

\* get_movies_dataset(): row idx of the dataset, its title and its overview
Movie(idx) ==
    [title |-> idx,
     overview |-> [j \in 1..(idx % (MaxWords + 1)) |->
                    IF (idx + j) % 2 = 0 THEN "scientist" ELSE "aliens"]]

get_movies_dataset(n) == [idx \in 1..n |-> Movie(idx)]

\* get_embeddings(): the overviews, encoded beforehand with the same encoder
get_embeddings(movies) == EncodeList([idx \in 1..Len(movies) |-> movies[idx].overview])

\* records = [models.Record(id=idx, vector=vector, payload={...}) for ...]
Records(movies_embeddings, movies) ==
    [idx \in 1..Min(Len(movies_embeddings), Len(movies)) |->
        [id |-> idx, vector |-> movies_embeddings[idx], payload |-> movies[idx]]]

\* encoded_prompt = encoder.encode(prompt)
EncodePromptOtherEncoder(prompt) == Encode(prompt) \o <<0>>
EncodePrompt(prompt) == Encode(prompt)

\* the hits of a search: id and payload of each point found
Hits(c, ids) == [i \in 1..Len(ids) |-> [id |-> ids[i], payload |-> c.payloads[ids[i]]]]

\* format_records_into_context(records, template=context_template): a line for
\* each record, with its title and its overview
format_records_into_context(records) ==
    [i \in 1..Len(records) |-> <<records[i].payload.title, records[i].payload.overview>>]

\* prompt_template.format(context=..., prompt=...)
format_prompt(context, question) == [context |-> context, prompt |-> question]

\* the completions the language model can give
Completions == {"completion A", "completion B"}

\* The cells in the order of the notebooks. ask is called by the last cell.
CellAfter(step) ==
    CASE step = "load_data" -> "load_encoder"
      [] step = "load_encoder" -> "create_collection"
      [] step = "create_collection" -> "build_records"
      [] step = "build_records" -> "upload_points"
      [] step = "upload_points" -> "encode_prompt"
      [] step = "encode_prompt" -> "search"
      [] step = "search" -> "print_hits"
      [] step = "print_hits" -> "openai_client"
      [] step = "openai_client" -> "ask_embed"
      [] OTHER -> "done"

\* The steps of ask: embed the question, search, format the records and the
\* question into a prompt, call the language model, return its completion.
AskAfterCompleteFirst(step) ==
    CASE step = "ask_embed" -> "ask_complete"
      [] step = "ask_complete" -> "ask_search"
      [] step = "ask_search" -> "ask_format"
      [] step = "ask_format" -> "ask_return"
      [] OTHER -> "done"
AskAfter(step) ==
    CASE step = "ask_embed" -> "ask_search"
      [] step = "ask_search" -> "ask_format"
      [] step = "ask_format" -> "ask_complete"
      [] step = "ask_complete" -> "ask_return"
      [] OTHER -> "done"

AskSteps == {"ask_embed", "ask_search", "ask_format", "ask_complete", "ask_return"}

After(step) == IF step \in AskSteps THEN AskAfter(step) ELSE CellAfter(step)

\* a step that returns: the run goes on with the step after it
Return(step) == [pc |-> After(step), failed |-> FALSE]

\* a step that raises: no cell catches anything, the error ends the run
RaiseSwallowed(step) == [pc |-> After(step), failed |-> FALSE]
Raise(step) == [pc |-> step, failed |-> TRUE]

\* the run after step `step` returned (ok) or raised
Ran(step, ok) ==
    LET to == IF ok THEN Return(step) ELSE Raise(step)
    IN /\ pc = step
       /\ ~failed
       /\ pc' = to.pc
       /\ failed' = to.failed
       /\ trace' = Append(trace, [step |-> step, ok |-> ok])
       /\ UNCHANGED <<knn_vars, dist_vars, kernel_vars, scan, enc_vars>>

\* movies, movies_embeddings = get_movies_dataset(), get_embeddings()
LoadData ==
    \E ok \in BOOLEAN, n \in 0..MaxMovies :
        /\ Ran("load_data", ok)
        /\ nb' = IF ok
                 THEN [nb EXCEPT !.movies = get_movies_dataset(n),
                                 !.movies_embeddings = get_embeddings(get_movies_dataset(n))]
                 ELSE nb
        /\ UNCHANGED <<db_vars, ask, llm_requests>>

\* encoder = SentenceTransformer("sentence-transformers/all-MiniLM-L6-v2")
LoadEncoder ==
    \E ok \in BOOLEAN :
        /\ Ran("load_encoder", ok)
        /\ UNCHANGED <<db_vars, nb, ask, llm_requests>>

\* qdrant = QdrantClient(":memory:"); qdrant.recreate_collection("movies",
\*   VectorParams(size=encoder.get_sentence_embedding_dimension(), distance=COSINE))
CreateCollection ==
    \E ok \in BOOLEAN :
        LET config == VectorParams(get_sentence_embedding_dimension, "Cosine")
        IN /\ Ran("create_collection", ok)
           /\ collections' = IF ok
                             THEN recreate_collection(QdrantClient, COLLECTION_NAME, config)
                             ELSE QdrantClient
           /\ last' = [Call("recreate_collection", COLLECTION_NAME, ok) EXCEPT
                          !.config = config]
           /\ UNCHANGED <<nb, ask, llm_requests>>

\* records = [models.Record(...) for vector, (idx, row) in zip(...)]
BuildRecords ==
    /\ Ran("build_records", TRUE)
    /\ nb' = [nb EXCEPT !.records = Records(nb.movies_embeddings, nb.movies)]
    /\ UNCHANGED <<db_vars, ask, llm_requests>>

\* qdrant.upload_points(collection_name=COLLECTION_NAME, points=records): an
\* upload that raises has stored the records before the one it raised on
UploadRecords ==
    \E sent \in 0..Len(nb.records) :
        LET c == collections[COLLECTION_NAME]
            ok == c.exists /\ sent = Len(nb.records) /\ UploadOk(c, nb.records)
        IN /\ Ran("upload_points", ok)
           /\ collections' =
                IF c.exists
                THEN [collections EXCEPT
                        ![COLLECTION_NAME] = Upload(c, Prefix(nb.records, sent))]
                ELSE collections
           /\ last' = Call("upload_points", COLLECTION_NAME, ok)
           /\ UNCHANGED <<nb, ask, llm_requests>>

\* prompt = "..."; encoded_prompt = encoder.encode(prompt)
EncodePromptCell ==
    \E ok \in BOOLEAN :
        /\ Ran("encode_prompt", ok)
        /\ nb' = IF ok THEN [nb EXCEPT !.encoded_prompt = EncodePrompt(nb.question)] ELSE nb
        /\ UNCHANGED <<db_vars, ask, llm_requests>>

\* what a search of the movies collection leaves in `last`
MoviesSearch(q, limit, ok, ids) ==
    [Call("search", COLLECTION_NAME, ok) EXCEPT !.query = q, !.limit = limit, !.hits = ids]

\* hits = qdrant.search(COLLECTION_NAME, query_vector=encoded_prompt.tolist(), limit=10)
SearchMovies ==
    \E up \in BOOLEAN :
        LET c == collections[COLLECTION_NAME]
            ok == up /\ SearchOk(c, nb.encoded_prompt)
        IN /\ Ran("search", ok)
           /\ IF ok
              THEN \E ids \in Search(c, nb.encoded_prompt, SEARCH_LIMIT) :
                    /\ last' = MoviesSearch(nb.encoded_prompt, SEARCH_LIMIT, TRUE, ids)
                    /\ nb' = [nb EXCEPT !.hits = Hits(c, ids)]
              ELSE /\ last' = MoviesSearch(nb.encoded_prompt, SEARCH_LIMIT, FALSE, <<>>)
                   /\ nb' = nb
           /\ UNCHANGED <<collections, ask, llm_requests>>

\* for res in hits: print(...)
PrintHits ==
    /\ Ran("print_hits", TRUE)
    /\ UNCHANGED <<db_vars, nb, ask, llm_requests>>

\* client = openai.OpenAI(): raises when OPENAI_API_KEY is not set
OpenAIClient ==
    /\ Ran("openai_client", nb.api_key)
    /\ UNCHANGED <<db_vars, nb, ask, llm_requests>>

\* ask, step 1: the question is encoded with the encoder of the documents
AskEmbed ==
    \E ok \in BOOLEAN :
        /\ Ran("ask_embed", ok)
        /\ ask' = IF ok THEN [ask EXCEPT !.embedding = EncodePrompt(nb.question)] ELSE ask
        /\ UNCHANGED <<db_vars, nb, llm_requests>>

\* ask, step 2: get_records(question, max_results=max_results), the search
AskSearch ==
    \E up \in BOOLEAN :
        LET c == collections[COLLECTION_NAME]
            ok == up /\ SearchOk(c, ask.embedding)
        IN /\ Ran("ask_search", ok)
           /\ IF ok
              THEN \E ids \in Search(c, ask.embedding, MAX_RESULTS) :
                    /\ last' = MoviesSearch(ask.embedding, MAX_RESULTS, TRUE, ids)
                    /\ ask' = [ask EXCEPT !.docs = Hits(c, ids)]
              ELSE /\ last' = MoviesSearch(ask.embedding, MAX_RESULTS, FALSE, <<>>)
                   /\ ask' = ask
           /\ UNCHANGED <<collections, nb, llm_requests>>

\* ask, step 3: the records and the question are formatted into one prompt
AskFormat ==
    /\ Ran("ask_format", TRUE)
    /\ ask' = [ask EXCEPT
                !.context = format_records_into_context(ask.docs),
                !.prompt = format_prompt(format_records_into_context(ask.docs), nb.question)]
    /\ UNCHANGED <<db_vars, nb, llm_requests>>

\* ask, step 4: the prompt is sent to the language model
AskComplete ==
    \E ok \in BOOLEAN, completion \in Completions :
        /\ Ran("ask_complete", ok)
        /\ llm_requests' = Append(llm_requests, ask.prompt)
        /\ ask' = IF ok THEN [ask EXCEPT !.completion = completion] ELSE ask
        /\ UNCHANGED <<db_vars, nb>>

\* ask, step 5: answer = ask(question=question)
AskReturn ==
    /\ Ran("ask_return", TRUE)
    /\ nb' = [nb EXCEPT !.answer = ask.completion]
    /\ UNCHANGED <<db_vars, ask, llm_requests>>

\* os.environ["OPENAI_API_KEY"] = ... and question = ... are set, no cell has run
RagInit ==
    /\ pc = "load_data"
    /\ failed = FALSE
    /\ trace = <<>>
    /\ nb \in {[NoGlobals EXCEPT !.api_key = key, !.question = q] :
                key \in BOOLEAN, q \in Sentences}
    /\ ask = NoLocals
    /\ llm_requests = <<>>
    /\ KnnIdle
    /\ DbIdle
    /\ EncIdle
    /\ OthersIdle

RagNext ==
    \/ LoadData
    \/ LoadEncoder
    \/ CreateCollection
    \/ BuildRecords
    \/ UploadRecords
    \/ EncodePromptCell
    \/ SearchMovies
    \/ PrintHits
    \/ OpenAIClient
    \/ AskEmbed
    \/ AskSearch
    \/ AskFormat
    \/ AskComplete
    \/ AskReturn

SpecRag == RagInit /\ [][RagNext]_vars

---------------------------------------------------------------------------
(* Claims on the movie buddy run *)

IsAskStep(event) == event.step \in AskSteps
AskTrace == SelectSeq(trace, IsAskStep)
AskOrder == <<"ask_embed", "ask_search", "ask_format", "ask_complete", "ask_return">>

C3_FailureEndsTheRun ==
    /\ \A i \in 1..Len(trace) : ~trace[i].ok => i = Len(trace)
    /\ \A i, j \in 1..Len(trace) : trace[i].step = trace[j].step => i = j
    /\ failed <=> (trace # <<>> /\ ~trace[Len(trace)].ok)
    /\ failed => (pc = trace[Len(trace)].step /\ nb.answer = "")
    /\ \A i \in 1..Len(trace) : trace[i].step = "openai_client" => trace[i].ok = nb.api_key
    /\ ~nb.api_key => llm_requests = <<>>

\* a call raised after other steps had run, and steps were left to run
C3_Witness ==
    /\ failed
    /\ Len(trace) >= 2
    /\ pc # "done"
    /\ After(pc) # "done"

MoviesSearched == last.op = "search" /\ last.name = COLLECTION_NAME

\* C10: at every search on the movies collection the length of the query vector
\* equals the vector size of the collection, which is
\* encoder.get_sentence_embedding_dimension(), and the length of every stored
\* document vector and of every vector of get_embeddings().
C10_QueryFitsTheCollection ==
    MoviesSearched =>
        /\ collections[COLLECTION_NAME].exists
        /\ Len(last.query) = collections[COLLECTION_NAME].config.size
        /\ Len(last.query) = get_sentence_embedding_dimension
        /\ \A id \in PointIds(collections[COLLECTION_NAME]) :
            Len(collections[COLLECTION_NAME].points[id]) = Len(last.query)
        /\ \A i \in 1..Len(nb.movies_embeddings) :
            Len(nb.movies_embeddings[i]) = Len(last.query)

\* a search on a movies collection that holds documents, and found some
C10_Witness ==
    /\ MoviesSearched
    /\ last.ok
    /\ Cardinality(PointIds(collections[COLLECTION_NAME])) >= 2
    /\ Len(last.hits) >= 1

---------------------------------------------------------------------------
(* np.float64 arithmetic, with a short significand *)

\* significand bits of a float: 53 for np.float64; 3 here
MANTISSA_BITS == 3

RECURSIVE Pow2(_)
Pow2(n) == IF n = 0 THEN 1 ELSE 2 * Pow2(n - 1)

\* A float is carried as an integer number of units of 2^-(2 * MANTISSA_BITS):
\* the unit in which a coordinate, and the square of a coordinate, are whole.
\* One is the float 1.0.
One == Pow2(2 * MANTISSA_BITS)

Abs(x) == IF x < 0 THEN 0 - x ELSE x

RECURSIVE BitLength(_)
BitLength(n) == IF n = 0 THEN 0 ELSE 1 + BitLength(n \div 2)

\* the float nearest to x: MANTISSA_BITS significant bits, ties to even
FloatRound(x) ==
    LET m == Abs(x)
        len == BitLength(m)
    IN IF len <= MANTISSA_BITS THEN x
       ELSE LET q == Pow2(len - MANTISSA_BITS)
                lo == (m \div q) * q
                rem == m - lo
                up == 2 * rem > q \/ (2 * rem = q /\ (lo \div q) % 2 = 1)
                r == IF up THEN lo + q ELSE lo
            IN IF x < 0 THEN 0 - r ELSE r

\* vectors - target_vec, one coordinate
FloatSubFromZero(x, y) == FloatRound(x)
FloatSub(x, y) == FloatRound(x - y)

\* ** 2, one coordinate (x is a multiple of 2^-MANTISSA_BITS, so x * x is a
\* whole number of units)
FloatSquare(x) == FloatRound((x * x) \div One)

FloatAdd(x, y) == FloatRound(x + y)

\* np.sum(..., axis=1) of one row, added from left to right
RECURSIVE FloatSum(_)
FloatSum(s) ==
    IF s = <<>> THEN 0
    ELSE FloatAdd(FloatSum(SubSeq(s, 1, Len(s) - 1)), s[Len(s)])

\* np.sqrt: the float nearest to the real square root of x. c is the floor of
\* the root in units; doubled, with a last bit set when the root is not whole,
\* it rounds as the real root does.
FloatSqrt(x) ==
    IF x = 0 THEN 0
    ELSE LET t == x * One
             c == CHOOSE n \in 0..t : n * n <= t /\ t < (n + 1) * (n + 1)
             v == IF c * c = t THEN 2 * c ELSE 2 * c + 1
         IN FloatRound(v) \div 2

\* distances = np.sqrt(np.sum((vectors - target_vec) ** 2, axis=1)), in floats
FloatDistances(target_vec, vecs) ==
    [i \in 1..Len(vecs) |->
        FloatSqrt(FloatSum([j \in 1..Len(target_vec) |->
            FloatSquare(FloatSub(vecs[i][j], target_vec[j]))]))]

\* the floats np.random.uniform(low=0.0, high=1) returns: the multiples of
\* 2^-MANTISSA_BITS from 0 up to, not including, 1
FloatCoordinates == {n * Pow2(MANTISSA_BITS) : n \in 0..(Pow2(MANTISSA_BITS) - 1)}

FloatRows == [1..VECTOR_DIMENSIONS -> FloatCoordinates]

---------------------------------------------------------------------------
(* The distance of k_closest_vectors as a metric *)

\* the first line of k_closest_vectors, with each of a and b as the target
MeasureDistances ==
    /\ ~distances.computed
    /\ distances' = [computed |-> TRUE,
                     from_a |-> FloatDistances(vec_a, <<vec_b, vec_r>>),
                     from_b |-> FloatDistances(vec_b, <<vec_a, vec_r>>)]
    /\ UNCHANGED <<vec_a, vec_b, vec_r>>
    /\ UNCHANGED <<knn_vars, db_vars, enc_vars, rag_vars, kernel_vars, scan, cell10_vars>>

MetricInit ==
    /\ vec_a \in FloatRows
    /\ vec_b \in FloatRows
    /\ vec_r \in FloatRows
    /\ distances = NotComputed
    /\ Cell10Idle
    /\ KnnIdle
    /\ DbIdle
    /\ EncIdle
    /\ RagIdle
    /\ KernelIdle
    /\ ScanIdle

MetricNext == MeasureDistances

SpecMetric == MetricInit /\ [][MetricNext]_vars

\* d(a, b), d(b, a), d(a, r), d(r, b) as computed
D_ab == distances.from_a[1]
D_ba == distances.from_b[1]
D_ar == distances.from_a[2]
D_rb == distances.from_b[2]

\* sqrt(x) <= sqrt(y) + sqrt(z) for naturals x, y, z, without rounding
SurdTriangle(x, y, z) ==
    \/ x <= y + z
    \/ (x - y - z) * (x - y - z) <= 4 * y * z

---------------------------------------------------------------------------
(* Notebook 02, cell 10: the four measures of two vectors *)

\* a value assigned by the cell
Computed(value) == [computed |-> TRUE, value |-> value]

\* scipy.spatial.distance.cosine(u, v) = 1 - u.v / sqrt((u.u) * (v.v)), carried
\* by the dot product and the radicand; not a number when u or v is all zeros
\* (0 / 0)
cosine(u, v) ==
    [nan |-> Dot(u, u) * Dot(v, v) = 0, dot |-> Dot(u, v),
     radicand |-> Dot(u, u) * Dot(v, v)]

\* np.dot(u, v)
dot(u, v) == Dot(u, v)

\* scipy.spatial.distance.euclidean(u, v)
euclidean(u, v) == Sqrt(SumSqDiff(u, v))

\* scipy.spatial.distance.cityblock(u, v) = sum(abs(u - v))
cityblock_signed(u, v) == SumSeq([i \in 1..Len(u) |-> u[i] - v[i]])
cityblock(u, v) == SumSeq([i \in 1..Len(u) |-> Abs(u[i] - v[i])])

\* 1 - dot / sqrt(radicand) >= 0, for a cosine distance that is a number
CosineNonNegative(c) == ~c.nan /\ (c.dot <= 0 \/ c.dot * c.dot <= c.radicand)

SurdNonNegative(d) == d.radicand >= 0

\* the vectors the measures are taken of: any signs, as the coordinates of
\* query_vector and of the embeddings have
MeasuredVectors == UNION {[1..n -> QueryLow..High] : n \in 1..VECTOR_DIMENSIONS}

AllZeros(u) == \A i \in 1..Len(u) : u[i] = 0

NoNegativeCoordinate(u) == \A i \in 1..Len(u) : u[i] >= 0

\* cell 10
DistanceCell ==
    /\ ~dot_distance.computed
    /\ cosine_distance' = Computed(cosine(vector_a, vector_b))
    /\ dot_distance' = Computed(dot(vector_a, vector_b))
    /\ euclidean_dist' = Computed(euclidean(vector_a, vector_b))
    /\ manhattan_dist' = Computed(cityblock(vector_a, vector_b))
    /\ UNCHANGED <<vector_a, vector_b>>
    /\ UNCHANGED <<knn_vars, db_vars, enc_vars, rag_vars, kernel_vars, scan, metric_vars>>

Cell10Init ==
    /\ vector_a \in MeasuredVectors
    /\ vector_b \in MeasuredVectors
    /\ Len(vector_a) = Len(vector_b)
    /\ cosine_distance = NotComputed
    /\ dot_distance = NotComputed
    /\ euclidean_dist = NotComputed
    /\ manhattan_dist = NotComputed
    /\ MetricIdle
    /\ KnnIdle
    /\ DbIdle
    /\ EncIdle
    /\ RagIdle
    /\ KernelIdle
    /\ ScanIdle

Cell10Next == DistanceCell

SpecCell10 == Cell10Init /\ [][Cell10Next]_vars

---------------------------------------------------------------------------
(* The notebook kernel: cells run one after the other *)

\* the external calls a cell makes, in the order of its statements. Each is a
\* plain call: the statement after it is reached when it has returned.
Program(c) ==
    CASE c = "timed_knn" -> <<"k_closest_vectors">>
      [] c = "upload_records" -> <<"upload_points">>
      [] c = "timed_search" -> <<"search">>
      [] c = "ask" -> <<"encode", "search", "completion">>

\* the user runs a cell: the kernel takes the request into its queue
RunCell(c) ==
    /\ Len(queue) < MaxQueue
    /\ queue' = Append(queue, c)
    /\ UNCHANGED <<running, in_call, outcome, last_started>>
    /\ UNCHANGED <<knn_vars, db_vars, enc_vars, rag_vars, dist_vars, scan>>

\* the kernel starts the cell at the head of the queue
StartCell ==
    /\ queue # <<>>
    /\ running = {}
    /\ running' = {[cell |-> Head(queue), todo |-> Program(Head(queue))]}
    /\ queue' = Tail(queue)
    /\ outcome' = [outcome EXCEPT ![Head(queue)] = "running"]
    /\ last_started' = Head(queue)
    /\ UNCHANGED in_call
    /\ UNCHANGED <<knn_vars, db_vars, enc_vars, rag_vars, dist_vars, scan>>

\* a cell in progress makes its next call while the one before is in progress
BeginCallWithoutWaiting ==
    \E r \in running :
        /\ r.todo # <<>>
        /\ in_call' = in_call \cup {[cell |-> r.cell, call |-> Head(r.todo)]}
        /\ running' = (running \ {r}) \cup {[r EXCEPT !.todo = Tail(r.todo)]}
        /\ UNCHANGED <<queue, outcome, last_started>>
        /\ UNCHANGED <<knn_vars, db_vars, enc_vars, rag_vars, dist_vars, scan>>

\* a cell in progress reaches its next call
BeginCall ==
    \E r \in running :
        /\ r.todo # <<>>
        /\ \A ic \in in_call : ic.cell # r.cell
        /\ in_call' = in_call \cup {[cell |-> r.cell, call |-> Head(r.todo)]}
        /\ running' = (running \ {r}) \cup {[r EXCEPT !.todo = Tail(r.todo)]}
        /\ UNCHANGED <<queue, outcome, last_started>>
        /\ UNCHANGED <<knn_vars, db_vars, enc_vars, rag_vars, dist_vars, scan>>

\* the call returns
ReturnCall ==
    \E ic \in in_call :
        /\ in_call' = in_call \ {ic}
        /\ UNCHANGED <<queue, running, outcome, last_started>>
        /\ UNCHANGED <<knn_vars, db_vars, enc_vars, rag_vars, dist_vars, scan>>

\* the call raises: its cell fails, and the kernel drops the cells waiting
RaiseCall ==
    \E ic \in in_call :
        /\ in_call' = in_call \ {ic}
        /\ running' = {r \in running : r.cell # ic.cell}
        /\ outcome' = [outcome EXCEPT ![ic.cell] = "failed"]
        /\ queue' = <<>>
        /\ UNCHANGED last_started
        /\ UNCHANGED <<knn_vars, db_vars, enc_vars, rag_vars, dist_vars, scan>>

\* the cell has run its last statement
FinishCell ==
    \E r \in running :
        /\ r.todo = <<>>
        /\ \A ic \in in_call : ic.cell # r.cell
        /\ running' = running \ {r}
        /\ outcome' = [outcome EXCEPT ![r.cell] = "finished"]
        /\ UNCHANGED <<queue, in_call, last_started>>
        /\ UNCHANGED <<knn_vars, db_vars, enc_vars, rag_vars, dist_vars, scan>>

KernelInit ==
    /\ KernelIdle
    /\ KnnIdle
    /\ DbIdle
    /\ EncIdle
    /\ RagIdle
    /\ DistIdle
    /\ ScanIdle

KernelNext ==
    \/ \E c \in Cells : RunCell(c)
    \/ StartCell
    \/ BeginCall
    \/ ReturnCall
    \/ RaiseCall
    \/ FinishCell

SpecKernel == KernelInit /\ [][KernelNext]_vars

\* at most one cell and at most one call in progress, the call made by the cell
OneAtATime ==
    /\ Cardinality(running) <= 1
    /\ Cardinality(in_call) <= 1
    /\ \A ic \in in_call : \E r \in running : r.cell = ic.cell

\* a step that starts a cell
Starts(c) == outcome[c] # "running" /\ outcome'[c] = "running"

\* C13: at no point are two cells or two external calls in progress at the same
\* time, and a cell starts only when the cell started before it has finished or
\* failed.
C13_OneCellOneCallAtATime ==
    /\ []OneAtATime
    /\ [][(\E c \in Cells : Starts(c)) =>
            (last_started = "none" \/ outcome[last_started] \in {"finished", "failed"})]_vars

\* ask is at its second call, after a first cell finished, with a cell waiting
C13_Witness ==
    /\ \E ic \in in_call : ic.cell = "ask" /\ ic.call = "search"
    /\ \E c \in Cells : outcome[c] = "finished"
    /\ queue # <<>>

---------------------------------------------------------------------------
(* k_closest_vectors, one operation at a time *)

\* the call begins: no distance computed yet
CallScan ==
    /\ scan.phase = "not called"
    /\ scan' = [phase |-> "distances", distances |-> <<>>, order |-> <<>>,
                next |-> 0, at |-> 0, computed |-> 0, compared |-> 0,
                k_closest_indices |-> <<>>, closest_vectors |-> <<>>]
    /\ UNCHANGED <<knn_vars, db_vars, enc_vars, rag_vars, dist_vars, kernel_vars>>

\* distances = np.sqrt(np.sum((vectors - target_vec) ** 2, axis=1)): the
\* distance of the next row
ComputeDistance ==
    /\ scan.phase = "distances"
    /\ Len(scan.distances) < Len(vectors)
    /\ scan' = [scan EXCEPT
                !.distances = Append(@, Euclidean(vectors[Len(@) + 1], query_vector)),
                !.computed = @ + 1]
    /\ UNCHANGED <<knn_vars, db_vars, enc_vars, rag_vars, dist_vars, kernel_vars>>

\* np.argsort(distances) begins: the first row position is in place, the second
\* is to be inserted
BeginArgsort ==
    /\ scan.phase = "distances"
    /\ Len(scan.distances) = Len(vectors)
    /\ scan' = [scan EXCEPT
                !.phase = "argsort",
                !.order = IF Len(vectors) = 0 THEN <<>> ELSE <<1>>,
                !.next = 2,
                !.at = 1]
    /\ UNCHANGED <<knn_vars, db_vars, enc_vars, rag_vars, dist_vars, kernel_vars>>

\* order with x put in after position j
InsertAfter(order, j, x) ==
    SubSeq(order, 1, j) \o <<x>> \o SubSeq(order, j + 1, Len(order))

\* np.argsort on a short array is an insertion sort: one comparison of the row
\* being inserted with the row before the gap; the gap moves down while the
\* row inserted is strictly closer
CompareEvery(sc) ==
    LET x == sc.next
        j == sc.at
        closer == SurdLess(sc.distances[x], sc.distances[sc.order[j]])
    IN IF j > 1
       THEN [sc EXCEPT !.compared = @ + 1, !.at = j - 1]
       ELSE [sc EXCEPT !.compared = @ + 1,
                       !.order = InsertAfter(@, IF closer THEN 0 ELSE 1, x),
                       !.next = x + 1, !.at = x]
Compare(sc) ==
    LET x == sc.next
        j == sc.at
        closer == SurdLess(sc.distances[x], sc.distances[sc.order[j]])
    IN IF closer /\ j > 1
       THEN [sc EXCEPT !.compared = @ + 1, !.at = j - 1]
       ELSE [sc EXCEPT !.compared = @ + 1,
                       !.order = InsertAfter(@, IF closer THEN j - 1 ELSE j, x),
                       !.next = x + 1, !.at = x]

ArgsortStep ==
    /\ scan.phase = "argsort"
    /\ scan.next <= Len(vectors)
    /\ scan' = Compare(scan)
    /\ UNCHANGED <<knn_vars, db_vars, enc_vars, rag_vars, dist_vars, kernel_vars>>

\* k_closest_indices = np.argsort(distances)[:k]
Slice ==
    /\ scan.phase = "argsort"
    /\ scan.next > Len(vectors)
    /\ scan' = [scan EXCEPT !.phase = "index", !.k_closest_indices = Prefix(scan.order, K)]
    /\ UNCHANGED <<knn_vars, db_vars, enc_vars, rag_vars, dist_vars, kernel_vars>>

\* closest_vectors = vectors[k_closest_indices]; return closest_vectors
IndexRows ==
    /\ scan.phase = "index"
    /\ scan' = [scan EXCEPT
                !.phase = "returned",
                !.closest_vectors = [i \in 1..Len(scan.k_closest_indices) |->
                                        vectors[scan.k_closest_indices[i]]]]
    /\ UNCHANGED <<knn_vars, db_vars, enc_vars, rag_vars, dist_vars, kernel_vars>>

ScanInit ==
    /\ vectors \in Matrices
    /\ query_vector \in QuerySpace
    /\ K \in 0..(MaxRows + 1)
    /\ closest_vectors = <<>>
    /\ k_closest_indices = <<>>
    /\ knn_runs = FALSE
    /\ np_argsort = <<>>
    /\ knn_raised = FALSE
    /\ returned = <<>>
    /\ scan = NoScan
    /\ DbIdle
    /\ EncIdle
    /\ RagIdle
    /\ DistIdle
    /\ KernelIdle

ScanNext ==
    \/ CallScan
    \/ ComputeDistance
    \/ BeginArgsort
    \/ ArgsortStep
    \/ Slice
    \/ IndexRows

\* the interpreter runs the call on: an operation that can be done is done
SpecScan == ScanInit /\ [][ScanNext]_vars /\ WF_vars(ScanNext)

Returned == scan.phase = "returned"

\* the operations of a scan that keeps the K closest rows seen so far: one
\* distance per row, and K passes of at most one comparison per further row
LinearScanBudget(n, k) == n + k * (IF n = 0 THEN 0 ELSE n - 1)

---------------------------------------------------------------------------
(* k_closest_vectors: size of the result, repeated calls, frame *)

\* C15: for every matrix of N rows and every K >= 0 the call returns exactly
\* min(K, N) rows of the matrix without raising: none for K = 0, and all N rows
\* for K > N.
C15_ReturnsMinKNRows ==
    knn_runs =>
        /\ ~knn_raised
        /\ Len(closest_vectors) = Min(K, Len(vectors))
        /\ Len(k_closest_indices) = Min(K, Len(vectors))
        /\ \A i \in 1..Len(closest_vectors) :
            /\ k_closest_indices[i] \in 1..Len(vectors)
            /\ closest_vectors[i] = vectors[k_closest_indices[i]]
        /\ (K = 0 => closest_vectors = <<>>)
        /\ (K > Len(vectors) => Range(k_closest_indices) = 1..Len(vectors))

\* a call that asked for more rows than the matrix has
C15_Witness ==
    /\ knn_runs
    /\ Len(vectors) >= 2
    /\ K > Len(vectors)
    /\ Len(closest_vectors) = Len(vectors)

C17_CallChangesNothing ==
    [][returned' # returned =>
        /\ vectors' = vectors
        /\ query_vector' = query_vector
        /\ K' = K
        /\ returned' = Append(returned,
                Result(k_closest_vectors_call(query_vector, vectors, K, np_argsort)))
        /\ closest_vectors' = returned'[Len(returned')].closest_vectors]_vars

\* a second call on a matrix of several rows, with a query that is not the origin
C17_Witness ==
    /\ Len(returned) >= 2
    /\ Len(vectors) >= 2
    /\ K >= 1
    /\ \E i \in 1..Len(query_vector) : query_vector[i] # 0
    /\ closest_vectors # <<>>
====
